---- MODULE Spec2Model ----
(***************************************************************************)
(* A state-machine model of backend/llm.py: the three streaming transports *)
(* stream_openai_response, stream_claude_response and                      *)
(* stream_claude_response_native.  Every coroutine is modelled per call;   *)
(* a value of pc is an await at which the coroutine is suspended, and an   *)
(* action is the code that runs from one await to the next.                *)
(***************************************************************************)
EXTENDS Integers, Sequences, FiniteSets, TLC

\* ------------------------------------------------------------------ bounds
\* Longest conversation a caller passes in.
MaxMsgs == 2
\* Most text increments (or chunks) the provider sends in one stream.
MaxFrags == 2

\* ------------------------------------------------------- program constants
\* llm.py:172
max_passes == 2
\* llm.py:174
prefix == <<"<thinking>">>
\* llm.py:224, the fixed instruction of the second pass
Instruction == <<"You've done a good job with a first draft. Improve this further">>

\* ------------------------------------------------------------------- data
Calls == {1, 2}
Fns == {"openai", "claude", "native"}
\* A text is a sequence of tokens; the provider's increments are one token.
Alphabet == {"a", "b"}
Frags == {<<x>> : x \in Alphabet}
NoUrl == [media |-> "", data |-> ""]
\* A data URL, data:<media>;base64,<data>, kept as its two components.
Urls == {[media |-> "image/png", data |-> "iVBOR"]}

RECURSIVE Concat(_)
\* "".join(texts)
Concat(texts) ==
    IF texts = <<>> THEN <<>> ELSE Head(texts) \o Concat(Tail(texts))

IsPrefix(s, t) == Len(s) <= Len(t) /\ SubSeq(t, 1, Len(s)) = s

\* A content part (a dict); absent keys are flagged, so that all parts compare.
TextPart(t) ==
    [type |-> "text", text |-> t, hasImageUrl |-> FALSE, image_url |-> NoUrl,
     hasSource |-> FALSE, source |-> [type |-> "", media_type |-> "", data |-> ""]]
ImageUrlPart(u) ==
    [type |-> "image_url", text |-> <<>>, hasImageUrl |-> TRUE, image_url |-> u,
     hasSource |-> FALSE, source |-> [type |-> "", media_type |-> "", data |-> ""]]
\* A part of a kind the translation does not know.
OtherPart ==
    [type |-> "document", text |-> <<>>, hasImageUrl |-> FALSE, image_url |-> NoUrl,
     hasSource |-> FALSE, source |-> [type |-> "", media_type |-> "", data |-> ""]]

\* A message (a dict) whose content is a string
TextMsg(r, t) == [role |-> r, isList |-> FALSE, text |-> t, parts |-> <<>>]
\* and one whose content is a list of parts.
ListMsg(r, ps) == [role |-> r, isList |-> TRUE, text |-> <<>>, parts |-> ps]

\* image_processing.utils.process_image: the media type and the base64 data
\* of a data URL.
process_image(image_data_url) == <<image_data_url.media, image_data_url.data>>

\* ------------------------------------------------------------ the heap
\* The caller's list and the part dicts are objects: lists[l] is the list
\* object l, a sequence of messages whose list contents hold addresses of
\* part dicts, and heap[p] is the part dict at address p.

RECURSIVE PartsOf(_)
\* All parts of a conversation, in order.
PartsOf(ms) ==
    IF ms = <<>> THEN <<>> ELSE Head(ms).parts \o PartsOf(Tail(ms))

\* The conversation ms, whose parts are values, with its parts put at the
\* addresses base+1, base+2, ...
Store(ms, base) ==
    [i \in 1..Len(ms) |->
        [ms[i] EXCEPT !.parts =
            [j \in 1..Len(ms[i].parts) |->
                base + Len(PartsOf(SubSeq(ms, 1, i - 1))) + j]]]

\* The value of a conversation: every address replaced by the dict it holds.
Deref(ms, h) ==
    [i \in 1..Len(ms) |->
        [ms[i] EXCEPT !.parts = [j \in 1..Len(ms[i].parts) |-> h[ms[i].parts[j]]]]]

\* -------------------------------------------------------------- the models
\* class Llm, lines 15-27: the members, by their values.
GPT_4_VISION == "gpt-4-vision-preview"
GPT_4_TURBO_2024_04_09 == "gpt-4-turbo-2024-04-09"
GPT_4O_2024_05_13 == "gpt-4o-2024-05-13"
GPT_4O_2024_08_06 == "gpt-4o-2024-08-06"
GPT_4O_2024_11_20 == "gpt-4o-2024-11-20"
CLAUDE_3_SONNET == "claude-3-sonnet-20240229"
CLAUDE_3_OPUS == "claude-3-opus-20240229"
CLAUDE_3_HAIKU == "claude-3-haiku-20240307"
CLAUDE_3_5_SONNET_2024_06_20 == "claude-3-5-sonnet-20240620"
CLAUDE_3_5_SONNET_2024_10_22 == "claude-3-5-sonnet-20241022"
GEMINI_2_0_FLASH_EXP == "gemini-2.0-flash-exp"
O1_2024_12_17 == "o1-2024-12-17"

Llm ==
    {GPT_4_VISION, GPT_4_TURBO_2024_04_09, GPT_4O_2024_05_13, GPT_4O_2024_08_06,
     GPT_4O_2024_11_20, CLAUDE_3_SONNET, CLAUDE_3_OPUS, CLAUDE_3_HAIKU,
     CLAUDE_3_5_SONNET_2024_06_20, CLAUDE_3_5_SONNET_2024_10_22,
     GEMINI_2_0_FLASH_EXP, O1_2024_12_17}

\* Line 37 with a fallback to a default member instead of the lookup error.
LlmOfDefault(value) ==
    IF value \in Llm
    THEN [ok |-> TRUE, llm |-> value, raised |-> "none"]
    ELSE [ok |-> TRUE, llm |-> GPT_4O_2024_05_13, raised |-> "none"]

\* Llm(value), line 37: the member with that value, or ValueError.
LlmOf(value) ==
    IF value \in Llm
    THEN [ok |-> TRUE, llm |-> value, raised |-> "none"]
    ELSE [ok |-> FALSE, llm |-> "none", raised |-> "ValueError"]

\* Lines 31-37 with a third alias, claude_3_5_sonnet.
convert_frontend_str_to_llm_aliased(str) ==
    IF str = "gpt_4_vision" THEN [ok |-> TRUE, llm |-> GPT_4_VISION, raised |-> "none"]
    ELSE IF str = "claude_3_sonnet"
    THEN [ok |-> TRUE, llm |-> CLAUDE_3_SONNET, raised |-> "none"]
    ELSE IF str = "claude_3_5_sonnet"
    THEN [ok |-> TRUE, llm |-> CLAUDE_3_5_SONNET_2024_06_20, raised |-> "none"]
    ELSE LlmOf(str)

\* Lines 31-37.
convert_frontend_str_to_llm(str) ==
    IF str = "gpt_4_vision" THEN [ok |-> TRUE, llm |-> GPT_4_VISION, raised |-> "none"]
    ELSE IF str = "claude_3_sonnet"
    THEN [ok |-> TRUE, llm |-> CLAUDE_3_SONNET, raised |-> "none"]
    ELSE LlmOf(str)

\* The names a caller may hand to the resolution: the values of the members,
\* the short names, names of members and garbage.
FrontendStrs ==
    Llm \cup {"gpt_4_vision", "claude_3_sonnet", "claude_3_5_sonnet",
              "not_a_real_model", "GPT_4_VISION", ""}

\* The parameters of a request; absent keys are flagged.  Temperature 0
\* stands for 0.0.
NoParams ==
    [model |-> "none", stream |-> FALSE, hasTimeout |-> FALSE, timeout |-> 0,
     temperature |-> 0, hasMaxTokens |-> FALSE, max_tokens |-> 0]

\* Lines 50-67 with the ceiling of lines 59-64 given to every gpt-4o model.
OpenAIParamsAllGpt4o(m) ==
    LET base == [model |-> m, stream |-> TRUE, hasTimeout |-> TRUE, timeout |-> 600,
                 temperature |-> 0, hasMaxTokens |-> FALSE, max_tokens |-> 0]
        vision == IF m = GPT_4_VISION \/ m = GPT_4_TURBO_2024_04_09
                     \/ m = GPT_4O_2024_05_13 \/ m = GPT_4O_2024_08_06
                  THEN [base EXCEPT !.hasMaxTokens = TRUE, !.max_tokens = 4096]
                  ELSE base
    IN  IF m = GPT_4O_2024_11_20
        THEN [vision EXCEPT !.hasMaxTokens = TRUE, !.max_tokens = 16384]
        ELSE vision

\* Lines 50-67.
OpenAIParams(m) ==
    LET base == [model |-> m, stream |-> TRUE, hasTimeout |-> TRUE, timeout |-> 600,
                 temperature |-> 0, hasMaxTokens |-> FALSE, max_tokens |-> 0]
        vision == IF m = GPT_4_VISION \/ m = GPT_4_TURBO_2024_04_09
                     \/ m = GPT_4O_2024_05_13
                  THEN [base EXCEPT !.hasMaxTokens = TRUE, !.max_tokens = 4096]
                  ELSE base
    IN  IF m = GPT_4O_2024_11_20
        THEN [vision EXCEPT !.hasMaxTokens = TRUE, !.max_tokens = 16384]
        ELSE vision

\* Lines 99-100 and 136-138.
ClaudeParams(m) ==
    [model |-> m, stream |-> TRUE, hasTimeout |-> FALSE, timeout |-> 0,
     temperature |-> 0, hasMaxTokens |-> TRUE, max_tokens |-> 8192]

\* Lines 167-168 and 194-196.
NativeParams(m) ==
    [model |-> m, stream |-> TRUE, hasTimeout |-> FALSE, timeout |-> 0,
     temperature |-> 0, hasMaxTokens |-> TRUE, max_tokens |-> 4096]

\* ------------------------------------------------------------- the inputs
SeqsUpTo(S, n) == UNION {[1..k -> S] : k \in 0..n}

PartKinds == {TextPart(<<"t">>), OtherPart} \cup {ImageUrlPart(u) : u \in Urls}
PartLists ==
    {<<>>} \cup {<<p>> : p \in PartKinds} \cup {<<p, q>> : p \in PartKinds, q \in PartKinds}

\* OpenAI-shaped conversations of text messages.
OpenAIInputs ==
    SeqsUpTo({TextMsg(r, <<"t">>) : r \in {"system", "user"}}, MaxMsgs)
\* OpenAI-shaped conversations: empty, or a first message of any role and
\* then messages whose content is a string or a list of parts.
ClaudeInputs ==
    {<<>>} \cup
    {<<first>> \o rest :
        first \in {TextMsg(r, <<"s">>) : r \in {"system", "user", "assistant"}},
        rest \in SeqsUpTo({TextMsg("assistant", <<"t">>)}
                              \cup {ListMsg("user", ps) : ps \in PartLists},
                          MaxMsgs - 1)}
\* Claude-shaped turns; the system prompt is an argument of its own.
NativeInputs ==
    SeqsUpTo({TextMsg(r, <<"t">>) : r \in {"user", "assistant"}}, MaxMsgs)

Inputs(f) ==
    CASE f = "openai" -> OpenAIInputs
      [] f = "claude" -> ClaudeInputs
      [] f = "native" -> NativeInputs

\* The models a caller passes: any member to stream_openai_response, whose
\* parameters depend on it; the Claude functions hand model.value on to the
\* provider and read nothing else of it, the native one has a default.
ModelsFor(f) ==
    CASE f = "openai" -> Llm
      [] f = "claude" -> {CLAUDE_3_5_SONNET_2024_06_20}
      [] f = "native" -> {CLAUDE_3_OPUS}

\* ------------------------------------------------------------------ state
VARIABLES
    IS_DEBUG_ENABLED,  \* config.IS_DEBUG_ENABLED
    lists,             \* the list objects: lists[l] is a sequence of messages
    heap,              \* the part dicts: heap[p] is the dict at address p
    fn,                \* fn[c]: the function call c runs
    messages,          \* messages[c]: the list object passed to call c
    include_thinking,  \* include_thinking[c]: the argument of the native call
    pc,                \* pc[c]: the await at which call c is suspended
    client,            \* client[c]: "none", "open" or "closed"
    closes,            \* closes[c]: how often client.close() completed
    sink,              \* sink[c]: the fragments callback was invoked with
    result,            \* result[c]: the value call c returned, if it did
    error,             \* error[c]: the exception call c ended with
    full_response,     \* stream_openai_response's accumulator
    received,          \* the chunks the OpenAI stream has yielded so far
    snapshot,          \* the message the Anthropic stream has accumulated
    response,          \* response[c]: the final message, or None
    current_pass_num,  \* stream_claude_response_native's loop counter
    full_stream,       \* stream_claude_response_native's debug accumulator
    debug_files,       \* the writes of call c's DebugFileWriter
    sent,              \* sent[c]: the payloads of the streams call c requested
    orig,              \* orig[c]: the caller's conversation when call c began
    finals,            \* finals[c]: the final messages call c resolved
    frontend_str,      \* frontend_str[c]: the model name the caller was given
    model,             \* model[c]: the Llm passed to call c, once resolved
    resolve_error,     \* resolve_error[c]: what the resolution raised
    params,            \* params[c]: the generation parameters of the request
    events             \* events[c]: what the provider and the sink did so far

vars ==
    <<IS_DEBUG_ENABLED, lists, heap, fn, messages, include_thinking, pc, client,
      closes, sink, result, error, full_response, received, snapshot, response,
      current_pass_num, full_stream, debug_files, sent, orig, finals,
      frontend_str, model, resolve_error, params, events>>

NoResult == [has |-> FALSE, text |-> <<>>]
None == [isNone |-> TRUE, content |-> <<>>]
Set(v, c, x) == [v EXCEPT ![c] = x]
Terminal == {"done", "failed", "cancelled"}
\* The value of the caller's conversation of call c.
Caller(c) == Deref(lists[messages[c]], heap)

\* What the provider or the sink did at one step of call c, while the n-th
\* stream of the call was the last one requested.
Event(c, kind, ok, text, begins) ==
    [kind |-> kind, ok |-> ok, text |-> text, begins |-> begins, pass |-> Len(sent[c])]

Happened(c, e) == events' = Set(events, c, Append(events[c], e))

\* Lines 144 and 203 with the fragments of the last pass only.
DeliverLastPassOnly(c, text) ==
    IF Len(sent[c]) < max_passes THEN sink[c] ELSE Append(sink[c], text)

\* await callback(text), lines 80, 144 and 203: what the sink has received.
Deliver(c, text) == Append(sink[c], text)

\* The state before the first call runs: call 1 is about to start on the
\* list object 1, every other call is idle.
InitWith(f, cv, th) ==
    /\ lists = <<Store(cv, 0)>>
    /\ heap = PartsOf(cv)
    /\ fn = [c \in Calls |-> f]
    /\ messages = [c \in Calls |-> 1]
    /\ include_thinking = [c \in Calls |-> th]
    /\ pc = [c \in Calls |-> IF c = 1 THEN "start" ELSE "idle"]
    /\ client = [c \in Calls |-> "none"]
    /\ closes = [c \in Calls |-> 0]
    /\ sink = [c \in Calls |-> <<>>]
    /\ result = [c \in Calls |-> NoResult]
    /\ error = [c \in Calls |-> "none"]
    /\ full_response = [c \in Calls |-> <<>>]
    /\ received = [c \in Calls |-> <<>>]
    /\ snapshot = [c \in Calls |-> <<>>]
    /\ response = [c \in Calls |-> None]
    /\ current_pass_num = [c \in Calls |-> 1]
    /\ full_stream = [c \in Calls |-> <<>>]
    /\ debug_files = [c \in Calls |-> <<>>]
    /\ sent = [c \in Calls |-> <<>>]
    /\ orig = [c \in Calls |-> <<>>]
    /\ finals = [c \in Calls |-> <<>>]
    /\ params = [c \in Calls |-> NoParams]
    /\ events = [c \in Calls |-> <<>>]

\* The caller holds the member m of Llm.
Resolved(m) ==
    /\ frontend_str = [c \in Calls |-> m]
    /\ model = [c \in Calls |-> m]
    /\ resolve_error = [c \in Calls |-> "none"]

Init ==
    /\ IS_DEBUG_ENABLED \in BOOLEAN
    /\ \E f \in Fns :
         /\ \E cv \in Inputs(f) :
              \E th \in (IF f = "native" THEN BOOLEAN ELSE {FALSE}) :
                InitWith(f, cv, th)
         /\ \E m \in ModelsFor(f) : Resolved(m)

\* ------------------------------------------------ stream_openai_response
Choices ==
    {[hasDelta |-> FALSE, hasContent |-> FALSE, content |-> <<>>],
     [hasDelta |-> TRUE, hasContent |-> FALSE, content |-> <<>>],
     [hasDelta |-> TRUE, hasContent |-> TRUE, content |-> <<>>]}
    \cup {[hasDelta |-> TRUE, hasContent |-> TRUE, content |-> f] : f \in Frags}
\* The request sets no n, so a chunk carries at most one choice.
Chunks == {[choices |-> <<>>]} \cup {[choices |-> <<ch>>] : ch \in Choices}

\* The condition of lines 73-78 with "is not None" for the last test.
HasDelta(chunk) ==
    /\ chunk.choices # <<>>
    /\ chunk.choices[1].hasDelta
    /\ chunk.choices[1].hasContent

\* The condition of lines 73-78.
HasDeltaText(chunk) ==
    /\ chunk.choices # <<>>
    /\ Len(chunk.choices) > 0
    /\ chunk.choices[1].hasDelta
    /\ chunk.choices[1].hasContent /\ chunk.choices[1].content # <<>>

\* Raise as it would be with the loop body in try/except/continue: the
\* exception is recorded and the next pass is requested.
RaiseThenNextPass(c, exception) ==
    /\ error' = Set(error, c, exception)
    /\ result' = result
    /\ IF fn[c] = "native" /\ current_pass_num[c] <= max_passes
       THEN /\ pc' = Set(pc, c, "open")
            /\ current_pass_num' = Set(current_pass_num, c, current_pass_num[c] + 1)
            /\ sent' = Set(sent, c, Append(sent[c],
                           [system |-> <<"s">>, messages |-> Caller(c)]))
       ELSE /\ pc' = Set(pc, c, "failed")
            /\ UNCHANGED <<current_pass_num, sent>>

\* Raise as it would be with a handler that hands back what was streamed.
RaiseReturnsPartial(c, exception) ==
    /\ pc' = Set(pc, c, "failed")
    /\ error' = Set(error, c, exception)
    /\ result' = Set(result, c, [has |-> TRUE, text |-> Concat(sink[c])])
    /\ UNCHANGED <<current_pass_num, sent>>

\* An exception raised in call c: no function of llm.py has a try statement,
\* so it leaves the function at once; nothing is returned, no pass follows.
Raise(c, exception) ==
    /\ pc' = Set(pc, c, "failed")
    /\ error' = Set(error, c, exception)
    /\ UNCHANGED <<result, current_pass_num, sent>>

\* Lines 47-69, up to the await of chat.completions.create.
OpenAIStart(c) ==
    /\ pc[c] = "start" /\ fn[c] = "openai"
    /\ client' = Set(client, c, "open")
    /\ orig' = Set(orig, c, Caller(c))
    /\ sent' = Set(sent, c, Append(sent[c], [system |-> <<>>, messages |-> Caller(c)]))
    /\ params' = Set(params, c, OpenAIParams(model[c]))
    /\ pc' = Set(pc, c, "create")
    /\ UNCHANGED <<IS_DEBUG_ENABLED, frontend_str, model, resolve_error, events,
                   lists, heap, fn, messages, include_thinking,
                   closes, sink, result, error, full_response, received, snapshot,
                   response, current_pass_num, full_stream, debug_files, finals>>

\* Lines 69-70: create returns the stream, or raises.
OpenAICreate(c) ==
    /\ pc[c] = "create"
    /\ \E ok \in BOOLEAN :
         IF ok
         THEN /\ full_response' = Set(full_response, c, <<>>)
              /\ pc' = Set(pc, c, "iter")
              /\ UNCHANGED <<error, result, current_pass_num, sent>>
         ELSE /\ Raise(c, "provider")
              /\ full_response' = full_response
    /\ UNCHANGED <<IS_DEBUG_ENABLED, frontend_str, model, resolve_error, params, events,
                   lists, heap, fn, messages, include_thinking,
                   client, closes, sink, received, snapshot, response,
                   full_stream, debug_files, orig, finals>>

\* Lines 71-81: one chunk of the stream; the callback returns or raises.
OpenAIChunk(c) ==
    /\ pc[c] = "iter"
    /\ Len(received[c]) < MaxFrags
    /\ \E chunk \in Chunks :
         /\ received' = Set(received, c, Append(received[c], chunk))
         /\ IF HasDeltaText(chunk)
            THEN LET content == chunk.choices[1].content IN
                 /\ full_response' = Set(full_response, c, full_response[c] \o content)
                 /\ sink' = Set(sink, c, Deliver(c, content))
                 /\ \E raised \in BOOLEAN :
                      IF raised
                      THEN Raise(c, "callback")
                      ELSE UNCHANGED <<pc, error, result, current_pass_num, sent>>
            ELSE UNCHANGED <<full_response, sink, pc, error, result,
                             current_pass_num, sent>>
    /\ UNCHANGED <<IS_DEBUG_ENABLED, frontend_str, model, resolve_error, params, events,
                   lists, heap, fn, messages, include_thinking,
                   client, closes, snapshot, response, full_stream, debug_files,
                   orig, finals>>

\* Line 71: the stream is exhausted; line 83 awaits client.close().
OpenAIStreamEnd(c) ==
    /\ pc[c] = "iter"
    /\ pc' = Set(pc, c, "close")
    /\ UNCHANGED <<IS_DEBUG_ENABLED, frontend_str, model, resolve_error, params, events,
                   lists, heap, fn, messages, include_thinking,
                   client, closes, sink, result, error, full_response, received,
                   snapshot, response, current_pass_num, full_stream, debug_files,
                   sent, orig, finals>>

\* Line 71: the stream raises.
OpenAIStreamError(c) ==
    /\ pc[c] = "iter"
    /\ Raise(c, "provider")
    /\ UNCHANGED <<IS_DEBUG_ENABLED, frontend_str, model, resolve_error, params, events,
                   lists, heap, fn, messages, include_thinking,
                   client, closes, sink, full_response, received, snapshot,
                   response, full_stream, debug_files, orig, finals>>

\* Lines 83-85.
OpenAIClose(c) ==
    /\ pc[c] = "close" /\ fn[c] = "openai"
    /\ client' = Set(client, c, "closed")
    /\ closes' = Set(closes, c, closes[c] + 1)
    /\ result' = Set(result, c, [has |-> TRUE, text |-> full_response[c]])
    /\ pc' = Set(pc, c, "done")
    /\ UNCHANGED <<IS_DEBUG_ENABLED, frontend_str, model, resolve_error, params, events,
                   lists, heap, fn, messages, include_thinking,
                   sink, error, full_response, received, snapshot, response,
                   current_pass_num, full_stream, debug_files, sent, orig, finals>>

\* ------------------------------------------------ stream_claude_response
\* Line 105 as list(messages): a new list that holds the caller's dicts.
ShallowCopy(ms, h) == [messages |-> ms, heap |-> h]

\* copy.deepcopy(messages), line 105: new part dicts holding the same values,
\* at fresh addresses, and a new list of messages that holds them.
DeepCopy(ms, h) ==
    [messages |-> Store(Deref(ms, h), Len(h)), heap |-> h \o PartsOf(Deref(ms, h))]

\* Lines 115-132 without the del of line 126.
ConvertImageKeepsUrl(content) ==
    [content EXCEPT
        !.type = "image",
        !.hasSource = TRUE,
        !.source = [type |-> "base64",
                    media_type |-> process_image(content.image_url)[1],
                    data |-> process_image(content.image_url)[2]]]

\* Lines 115-132: an image_url part rewritten in place into an image part.
ConvertImage(content) ==
    [content EXCEPT
        !.type = "image",
        !.hasImageUrl = FALSE,
        !.image_url = NoUrl,
        !.hasSource = TRUE,
        !.source = [type |-> "base64",
                    media_type |-> process_image(content.image_url)[1],
                    data |-> process_image(content.image_url)[2]]]

\* Lines 109-132: the heap after the loop over claude_messages, which
\* rewrites the image_url parts of every content that is a list.
TranslateParts(claude_messages, h) ==
    LET visited ==
            UNION {{claude_messages[i].parts[j] : j \in 1..Len(claude_messages[i].parts)} :
                      i \in {k \in 1..Len(claude_messages) : claude_messages[k].isList}}
    IN  [p \in 1..Len(h) |->
            IF p \in visited /\ h[p].type = "image_url"
            THEN ConvertImage(h[p])
            ELSE h[p]]

\* Lines 96-135, up to the await that opens the stream.  cloned_messages[0]
\* raises IndexError on an empty conversation.
ClaudeStart(c) ==
    /\ pc[c] = "start" /\ fn[c] = "claude"
    /\ client' = Set(client, c, "open")
    /\ orig' = Set(orig, c, Caller(c))
    /\ params' = Set(params, c, ClaudeParams(model[c]))
    /\ LET copied == DeepCopy(lists[messages[c]], heap)
           cloned_messages == copied.messages
       IN  IF cloned_messages = <<>>
           THEN /\ Raise(c, "IndexError")
                /\ heap' = copied.heap
           ELSE LET system_prompt == cloned_messages[1].text
                    claude_messages == Tail(cloned_messages)
                    translated == TranslateParts(claude_messages, copied.heap)
                IN  /\ heap' = translated
                    /\ sent' = Set(sent, c, Append(sent[c],
                                   [system |-> system_prompt,
                                    messages |-> Deref(claude_messages, translated)]))
                    /\ pc' = Set(pc, c, "open")
                    /\ UNCHANGED <<error, result, current_pass_num>>
    /\ UNCHANGED <<IS_DEBUG_ENABLED, frontend_str, model, resolve_error, events,
                   lists, fn, messages, include_thinking, closes,
                   sink, full_response, received, snapshot, response,
                   full_stream, debug_files, finals>>

\* ------------------------------------------- the Anthropic message stream
\* Lines 135-142 and 193-199: entering the stream succeeds or raises.
StreamOpen(c) ==
    /\ pc[c] = "open"
    /\ \E ok \in BOOLEAN :
         /\ Happened(c, Event(c, "open", ok, <<>>, FALSE))
         /\ IF ok
            THEN /\ pc' = Set(pc, c, "stream")
                 /\ snapshot' = Set(snapshot, c, <<>>)
                 /\ UNCHANGED <<error, result, current_pass_num, sent>>
            ELSE /\ Raise(c, "provider")
                 /\ snapshot' = snapshot
    /\ UNCHANGED <<IS_DEBUG_ENABLED, frontend_str, model, resolve_error, params,
                   lists, heap, fn, messages, include_thinking,
                   client, closes, sink, full_response, received, response,
                   full_stream, debug_files, orig, finals>>

\* Lines 143-144 and 200-203: one increment of text_stream, which continues
\* the last content block of the message or begins a new one; the callback
\* returns or raises.
StreamDelta(c) ==
    /\ pc[c] = "stream"
    /\ Len(Concat(snapshot[c])) < MaxFrags
    /\ \E text \in Frags :
         \E begins \in (IF snapshot[c] = <<>> THEN {TRUE} ELSE BOOLEAN) :
           /\ snapshot' = Set(snapshot, c,
                  IF begins
                  THEN Append(snapshot[c], text)
                  ELSE [snapshot[c] EXCEPT ![Len(snapshot[c])] = @ \o text])
           /\ full_stream' = Set(full_stream, c,
                  IF fn[c] = "native" THEN full_stream[c] \o text ELSE full_stream[c])
           /\ sink' = Set(sink, c, Deliver(c, text))
           /\ \E raised \in BOOLEAN :
                /\ Happened(c, Event(c, "delta", ~raised, text, begins))
                /\ IF raised
                   THEN Raise(c, "callback")
                   ELSE UNCHANGED <<pc, error, result, current_pass_num, sent>>
    /\ UNCHANGED <<IS_DEBUG_ENABLED, frontend_str, model, resolve_error, params,
                   lists, heap, fn, messages, include_thinking,
                   client, closes, full_response, received, response,
                   debug_files, orig, finals>>

\* text_stream is exhausted and the stream is left; lines 147 and 205 await
\* get_final_message().
StreamEnd(c) ==
    /\ pc[c] = "stream"
    /\ pc' = Set(pc, c, "final")
    /\ Happened(c, Event(c, "end", TRUE, <<>>, FALSE))
    /\ UNCHANGED <<IS_DEBUG_ENABLED, frontend_str, model, resolve_error, params,
                   lists, heap, fn, messages, include_thinking,
                   client, closes, sink, result, error, full_response, received,
                   snapshot, response, current_pass_num, full_stream, debug_files,
                   sent, orig, finals>>

\* text_stream raises.
StreamError(c) ==
    /\ pc[c] = "stream"
    /\ Raise(c, "provider")
    /\ Happened(c, Event(c, "end", FALSE, <<>>, FALSE))
    /\ UNCHANGED <<IS_DEBUG_ENABLED, frontend_str, model, resolve_error, params,
                   lists, heap, fn, messages, include_thinking,
                   client, closes, sink, full_response, received, snapshot,
                   response, full_stream, debug_files, orig, finals>>

\* Lines 147-150: get_final_message() returns the accumulated message, or
\* raises; line 150 awaits client.close().
ClaudeFinal(c) ==
    /\ pc[c] = "final" /\ fn[c] = "claude"
    /\ \E ok \in BOOLEAN :
         /\ Happened(c, Event(c, "final", ok, <<>>, FALSE))
         /\ IF ok
            THEN /\ response' = Set(response, c, [isNone |-> FALSE, content |-> snapshot[c]])
                 /\ finals' = Set(finals, c, Append(finals[c], snapshot[c]))
                 /\ pc' = Set(pc, c, "close")
                 /\ UNCHANGED <<error, result, current_pass_num, sent>>
            ELSE /\ Raise(c, "provider")
                 /\ UNCHANGED <<response, finals>>
    /\ UNCHANGED <<IS_DEBUG_ENABLED, frontend_str, model, resolve_error, params,
                   lists, heap, fn, messages, include_thinking,
                   client, closes, sink, full_response, received, snapshot,
                   full_stream, debug_files, orig>>

\* Lines 150-152; content[0] raises IndexError on a message without blocks.
ClaudeClose(c) ==
    /\ pc[c] = "close" /\ fn[c] = "claude"
    /\ client' = Set(client, c, "closed")
    /\ closes' = Set(closes, c, closes[c] + 1)
    /\ IF response[c].content = <<>>
       THEN Raise(c, "IndexError")
       ELSE /\ result' = Set(result, c, [has |-> TRUE, text |-> response[c].content[1]])
            /\ pc' = Set(pc, c, "done")
            /\ UNCHANGED <<error, current_pass_num, sent>>
    /\ UNCHANGED <<IS_DEBUG_ENABLED, frontend_str, model, resolve_error, params, events,
                   lists, heap, fn, messages, include_thinking,
                   sink, full_response, received, snapshot, response,
                   full_stream, debug_files, orig, finals>>

\* ----------------------------------------- stream_claude_response_native
\* The system_prompt argument.
SystemPrompt == <<"s">>

RECURSIVE BeforeFirst(_, _)
\* text.split(tok)[0]
BeforeFirst(text, tok) ==
    IF text = <<>> \/ Head(text) = tok
    THEN <<>>
    ELSE <<Head(text)>> \o BeforeFirst(Tail(text), tok)

RECURSIVE AfterLast(_, _)
\* text.split(tok)[-1]
AfterLast(text, tok) ==
    IF text = <<>> THEN <<>>
    ELSE IF text[Len(text)] = tok THEN <<>>
    ELSE AfterLast(SubSeq(text, 1, Len(text) - 1), tok) \o <<text[Len(text)]>>

RECURSIVE BeforeLast(_, _)
\* text.rsplit(tok, 1)[0]
BeforeLast(text, tok) ==
    IF tok \notin {text[k] : k \in 1..Len(text)} THEN text
    ELSE IF text[Len(text)] = tok THEN SubSeq(text, 1, Len(text) - 1)
    ELSE BeforeLast(SubSeq(text, 1, Len(text) - 1), tok)

\* DebugFileWriter.extract_html_content
extract_html_content(text) ==
    BeforeLast(AfterLast(text, "<html>"), "</html>") \o <<"</html>">>

\* Lines 209-217: the files written after pass n, when debugging is enabled.
PassFiles(n, response_text) ==
    IF IS_DEBUG_ENABLED
    THEN <<[kind |-> "pass.html", n |-> n,
            content |-> extract_html_content(response_text)],
           [kind |-> "thinking_pass.txt", n |-> n,
            content |-> BeforeFirst(response_text, "</thinking>")]>>
    ELSE <<>>

\* Lines 235-236.
FullStreamFile(text) ==
    IF IS_DEBUG_ENABLED
    THEN <<[kind |-> "full_stream.txt", n |-> 0, content |-> text]>>
    ELSE <<>>

\* Lines 185-189 with the priming turn added whatever the option.
MessagesToSendPrimed(msgs, thinking) == msgs \o <<TextMsg("assistant", prefix)>>

\* Lines 185-189.
MessagesToSend(msgs, thinking) ==
    IF thinking THEN msgs \o <<TextMsg("assistant", prefix)>> ELSE msgs

\* Lines 220-226 indented into the branch of line 209.
NextTurnsInDebugBranch(text) ==
    IF IS_DEBUG_ENABLED
    THEN <<TextMsg("assistant", prefix \o text), TextMsg("user", Instruction)>>
    ELSE <<>>

\* Lines 220-226: the two turns appended after a pass.
NextTurns(text) ==
    <<TextMsg("assistant", prefix \o text), TextMsg("user", Instruction)>>

\* The loop with the test current_pass_num < max_passes.
LoopTopOnePass(c, n, msgs) ==
    IF n < max_passes
    THEN /\ current_pass_num' = Set(current_pass_num, c, n + 1)
         /\ sent' = Set(sent, c, Append(sent[c],
                        [system |-> SystemPrompt,
                         messages |-> MessagesToSend(msgs, include_thinking[c])]))
         /\ pc' = Set(pc, c, "open")
    ELSE /\ current_pass_num' = Set(current_pass_num, c, n)
         /\ sent' = sent
         /\ pc' = Set(pc, c, "close")

\* Lines 181-193: the loop test with pass counter n and, in the loop, the
\* request of the next stream with the messages msgs; after the loop, line
\* 233 awaits client.close().
LoopTop(c, n, msgs) ==
    IF n <= max_passes
    THEN /\ current_pass_num' = Set(current_pass_num, c, n + 1)
         /\ sent' = Set(sent, c, Append(sent[c],
                        [system |-> SystemPrompt,
                         messages |-> MessagesToSend(msgs, include_thinking[c])]))
         /\ pc' = Set(pc, c, "open")
    ELSE /\ current_pass_num' = Set(current_pass_num, c, n)
         /\ sent' = sent
         /\ pc' = Set(pc, c, "close")

\* Lines 164-193, up to the await that opens the first stream.
NativeStart(c) ==
    /\ pc[c] = "start" /\ fn[c] = "native"
    /\ client' = Set(client, c, "open")
    /\ orig' = Set(orig, c, Caller(c))
    /\ params' = Set(params, c, NativeParams(model[c]))
    /\ response' = Set(response, c, None)
    /\ full_stream' = Set(full_stream, c, <<>>)
    /\ LoopTop(c, 1, Caller(c))
    /\ UNCHANGED <<IS_DEBUG_ENABLED, frontend_str, model, resolve_error, events,
                   lists, heap, fn, messages, include_thinking,
                   closes, sink, result, error, full_response, received, snapshot,
                   debug_files, finals>>

\* Lines 205-230 and back to the loop test: get_final_message() returns the
\* accumulated message, or raises; content[0] raises IndexError on a message
\* without blocks; messages += extends the list object passed by the caller.
NativeFinal(c) ==
    /\ pc[c] = "final" /\ fn[c] = "native"
    /\ \E ok \in BOOLEAN :
         /\ Happened(c, Event(c, "final", ok, <<>>, FALSE))
         /\ IF ~ok
            THEN /\ Raise(c, "provider")
                 /\ UNCHANGED <<response, finals, lists, debug_files>>
            ELSE /\ response' = Set(response, c, [isNone |-> FALSE, content |-> snapshot[c]])
                 /\ finals' = Set(finals, c, Append(finals[c], snapshot[c]))
                 /\ IF snapshot[c] = <<>>
                    THEN /\ Raise(c, "IndexError")
                         /\ UNCHANGED <<lists, debug_files>>
                    ELSE LET response_text == snapshot[c][1]
                             extended == lists[messages[c]] \o NextTurns(response_text)
                         IN  /\ debug_files' = Set(debug_files, c, debug_files[c] \o
                                    PassFiles(current_pass_num[c] - 1, response_text))
                             /\ lists' = [lists EXCEPT ![messages[c]] = extended]
                             /\ LoopTop(c, current_pass_num[c], Deref(extended, heap))
                             /\ UNCHANGED <<error, result>>
    /\ UNCHANGED <<IS_DEBUG_ENABLED, frontend_str, model, resolve_error, params,
                   heap, fn, messages, include_thinking, client,
                   closes, sink, full_response, received, snapshot,
                   full_stream, orig>>

\* Line 241 returning the draft of the first pass.
NativeResultDraft(c) == finals[c][1][1]

\* Line 241: the text of the first block of the last final message.
NativeResult(c) == response[c].content[1]

\* Lines 233-241.
NativeClose(c) ==
    /\ pc[c] = "close" /\ fn[c] = "native"
    /\ client' = Set(client, c, "closed")
    /\ closes' = Set(closes, c, closes[c] + 1)
    /\ debug_files' = Set(debug_files, c, debug_files[c] \o FullStreamFile(full_stream[c]))
    /\ IF response[c].isNone
       THEN Raise(c, "No HTML response found in AI response")
       ELSE /\ result' = Set(result, c, [has |-> TRUE, text |-> NativeResult(c)])
            /\ pc' = Set(pc, c, "done")
            /\ UNCHANGED <<error, current_pass_num, sent>>
    /\ UNCHANGED <<IS_DEBUG_ENABLED, frontend_str, model, resolve_error, params, events,
                   lists, heap, fn, messages, include_thinking,
                   sink, full_response, received, snapshot, response,
                   full_stream, orig, finals>>

\* ------------------------------------------------------------ cancellation
\* The caller cancels the task: CancelledError is raised at the await the
\* coroutine is suspended at, and no function of llm.py catches it.
Cancel(c) ==
    /\ pc[c] \notin Terminal \cup {"idle", "start"}
    /\ pc' = Set(pc, c, "cancelled")
    /\ error' = Set(error, c, "cancelled")
    /\ Happened(c, Event(c, "cancel", FALSE, <<>>, FALSE))
    /\ UNCHANGED <<IS_DEBUG_ENABLED, frontend_str, model, resolve_error, params,
                   lists, heap, fn, messages, include_thinking,
                   client, closes, sink, result, full_response, received, snapshot,
                   response, current_pass_num, full_stream, debug_files, sent, orig,
                   finals>>

Next ==
    \E c \in Calls :
        \/ OpenAIStart(c) \/ OpenAICreate(c) \/ OpenAIChunk(c)
        \/ OpenAIStreamEnd(c) \/ OpenAIStreamError(c) \/ OpenAIClose(c)
        \/ ClaudeStart(c) \/ StreamOpen(c) \/ StreamDelta(c) \/ StreamEnd(c)
        \/ StreamError(c) \/ ClaudeFinal(c) \/ ClaudeClose(c)
        \/ NativeStart(c) \/ NativeFinal(c) \/ NativeClose(c)
        \/ Cancel(c)

Spec == Init /\ [][Next]_vars

\* ------------------------------------------------------------------ retry
\* The caller calls stream_claude_response again on the conversation of a
\* call that has ended.
RetryInputs ==
    {<<TextMsg("system", <<"s">>), ListMsg("user", ps)>> : ps \in PartLists}
    \cup {<<TextMsg("system", <<"s">>), TextMsg("user", <<"t">>)>>}

InitRetry ==
    /\ IS_DEBUG_ENABLED \in BOOLEAN
    /\ \E cv \in RetryInputs : InitWith("claude", cv, FALSE)
    /\ Resolved(CLAUDE_3_5_SONNET_2024_06_20)

Retry(c) ==
    /\ pc[c] = "idle"
    /\ \A d \in Calls \ {c} : pc[d] \in Terminal
    /\ pc' = Set(pc, c, "start")
    /\ UNCHANGED <<IS_DEBUG_ENABLED, frontend_str, model, resolve_error, params, events,
                   lists, heap, fn, messages, include_thinking,
                   client, closes, sink, result, error, full_response, received,
                   snapshot, response, current_pass_num, full_stream, debug_files,
                   sent, orig, finals>>

NextRetry ==
    \E c \in Calls :
        \/ ClaudeStart(c) \/ StreamOpen(c) \/ StreamDelta(c) \/ StreamEnd(c)
        \/ StreamError(c) \/ ClaudeFinal(c) \/ ClaudeClose(c)
        \/ Cancel(c) \/ Retry(c)

SpecRetry == InitRetry /\ [][NextRetry]_vars

\* ------------------------------------------ two calls on one conversation
\* The caller passes one list object to two calls of
\* stream_claude_response_native, which run as interleaved tasks or one
\* after the other; neither task is cancelled.
SharedConversation == <<TextMsg("user", <<"t">>)>>

InitShared ==
    /\ IS_DEBUG_ENABLED = FALSE
    /\ InitWith("native", SharedConversation, FALSE)
    /\ Resolved(CLAUDE_3_OPUS)

\* The caller creates the task of call c, whatever the other call is doing.
Spawn(c) ==
    /\ pc[c] = "idle"
    /\ pc' = Set(pc, c, "start")
    /\ UNCHANGED <<IS_DEBUG_ENABLED, frontend_str, model, resolve_error, params, events,
                   lists, heap, fn, messages, include_thinking,
                   client, closes, sink, result, error, full_response, received,
                   snapshot, response, current_pass_num, full_stream, debug_files,
                   sent, orig, finals>>

NextShared ==
    \E c \in Calls :
        \/ NativeStart(c) \/ StreamOpen(c) \/ StreamDelta(c) \/ StreamEnd(c)
        \/ StreamError(c) \/ NativeFinal(c) \/ NativeClose(c)
        \/ Spawn(c)

SpecShared == InitShared /\ [][NextShared]_vars

\* ------------------------------------------------- two runs, debug on, off
\* The process runs stream_claude_response_native with the debug flag set
\* (call 1), is started again with the flag cleared and runs the function on
\* an equal conversation (call 2), the provider, the sink and the caller
\* doing in the second run what they did in the first.
DebugInputs ==
    {<<>>, <<TextMsg("user", <<"t">>)>>,
     <<TextMsg("user", <<"t">>), TextMsg("assistant", <<"t">>)>>}

InitDebug ==
    /\ IS_DEBUG_ENABLED = TRUE
    /\ \E cv \in DebugInputs : \E th \in BOOLEAN : InitWith("native", cv, th)
    /\ Resolved(CLAUDE_3_OPUS)

\* What the provider, the sink and the caller did: the events less the
\* position of the call.
Behaviour(evs) ==
    [i \in 1..Len(evs) |->
        [kind |-> evs[i].kind, ok |-> evs[i].ok, text |-> evs[i].text,
         begins |-> evs[i].begins]]

\* config.IS_DEBUG_ENABLED is read at import (line 7): the flag changes
\* with a new process only, which gets a list object of its own.
Restart ==
    /\ pc[1] \in Terminal /\ pc[2] = "idle"
    /\ IS_DEBUG_ENABLED' = FALSE
    /\ lists' = Append(lists, Store(orig[1], Len(heap)))
    /\ heap' = heap \o PartsOf(orig[1])
    /\ messages' = Set(messages, 2, Len(lists) + 1)
    /\ pc' = Set(pc, 2, "start")
    /\ UNCHANGED <<frontend_str, model, resolve_error, params, events,
                   fn, include_thinking,
                   client, closes, sink, result, error, full_response, received,
                   snapshot, response, current_pass_num, full_stream, debug_files,
                   sent, orig, finals>>

\* A step of call 2 is one the first run's events allow.
Replays(c) == c = 2 => IsPrefix(Behaviour(events'[2]), Behaviour(events[1]))

NextDebug ==
    \/ \E c \in Calls :
          \/ NativeStart(c) /\ Replays(c)
          \/ StreamOpen(c) /\ Replays(c)
          \/ StreamDelta(c) /\ Replays(c)
          \/ StreamEnd(c) /\ Replays(c)
          \/ StreamError(c) /\ Replays(c)
          \/ NativeFinal(c) /\ Replays(c)
          \/ NativeClose(c) /\ Replays(c)
          \/ Cancel(c) /\ Replays(c)
    \/ Restart

SpecDebug == InitDebug /\ [][NextDebug]_vars

\* ------------------------------------------------------------- resolution
\* The caller resolves the model name it was given, before any call runs.
InitResolve ==
    /\ IS_DEBUG_ENABLED = FALSE
    /\ InitWith("openai", <<>>, FALSE)
    /\ frontend_str \in [Calls -> FrontendStrs]
    /\ model = [c \in Calls |-> "none"]
    /\ resolve_error = [c \in Calls |-> "none"]

\* Lines 31-37: convert_frontend_str_to_llm returns a member or raises.
Resolve(c) ==
    /\ model[c] = "none" /\ resolve_error[c] = "none"
    /\ LET returned == convert_frontend_str_to_llm(frontend_str[c])
       IN  /\ model' = Set(model, c, returned.llm)
           /\ resolve_error' = Set(resolve_error, c, returned.raised)
    /\ UNCHANGED <<IS_DEBUG_ENABLED, frontend_str, params, events,
                   lists, heap, fn, messages, include_thinking, pc,
                   client, closes, sink, result, error, full_response, received,
                   snapshot, response, current_pass_num, full_stream, debug_files,
                   sent, orig, finals>>

NextResolve == \E c \in Calls : Resolve(c)

SpecResolve == InitResolve /\ [][NextResolve]_vars

\* ================================================================ claims
IsSuffix(s, t) == Len(s) <= Len(t) /\ SubSeq(t, Len(t) - Len(s) + 1, Len(t)) = s
Native == {c \in Calls : fn[c] = "native"}
\* The text the code takes from a final message: content[0].text.
PassText(final) == final[1]
\* A turn of role assistant whose content ends with the text.
CarriesDraft(m, text) == m.role = "assistant" /\ ~m.isList /\ IsSuffix(text, m.text)

\* C1: in each transport, a call that has ended - returned, failed on a
\* provider error or a callback error, or was cancelled - has closed the
\* client it opened, exactly once.
C1_ClientClosedOnEveryExit ==
    \A c \in Calls :
        (pc[c] = "done" \/ error[c] \in {"provider", "callback", "cancelled"})
            => (client[c] = "closed" /\ closes[c] = 1)

\* C2: a refinement-loop call never requests more than two streams, requests
\* the second only after the final message of the first is resolved, and a
\* call that returned has requested exactly two, the second with an assistant
\* turn that carries the whole final text of pass 1.
C2_TwoStreamsSecondCarriesDraft ==
    \A c \in Native :
        /\ Len(sent[c]) <= 2
        /\ (Len(sent[c]) = 2 => Len(finals[c]) >= 1)
        /\ (pc[c] = "done" =>
               /\ Len(sent[c]) = 2
               /\ \E i \in 1..Len(sent[c][2].messages) :
                      CarriesDraft(sent[c][2].messages[i], PassText(finals[c][1])))

C2_Witness ==
    \E c \in Native :
        /\ pc[c] = "done" /\ orig[c] # <<>>
        /\ Len(PassText(finals[c][1])) = 2

\* C3 as stated: whatever include_thinking is, the conversation of pass 2 is
\* the caller's conversation plus two turns, the assistant turn with the
\* pass-1 output and the fixed user instruction.
C3_SecondConversationPlusTwo ==
    \A c \in Native :
        Len(sent[c]) >= 2 =>
            LET m == sent[c][2].messages
                n == Len(orig[c])
            IN  /\ Len(m) = n + 2
                /\ CarriesDraft(m[n + 1], PassText(finals[c][1]))
                /\ m[n + 2] = TextMsg("user", Instruction)

\* C3 amended: the conversation of pass 2 is the caller's conversation, the
\* assistant turn with the pass-1 output and the fixed user instruction; that
\* is all of it when include_thinking is false, and with include_thinking
\* true one more turn follows, the assistant priming turn, so that its length
\* is the caller's plus 3.
C3_SecondConversationPlusTwoOrThree ==
    \A c \in Native :
        Len(sent[c]) >= 2 =>
            LET m == sent[c][2].messages
                n == Len(orig[c])
            IN  /\ Len(m) = n + 2 + (IF include_thinking[c] THEN 1 ELSE 0)
                /\ SubSeq(m, 1, n) = orig[c]
                /\ CarriesDraft(m[n + 1], PassText(finals[c][1]))
                /\ m[n + 2] = TextMsg("user", Instruction)
                /\ include_thinking[c] => m[n + 3] = TextMsg("assistant", prefix)

C3_Witness ==
    \E c \in Native :
        /\ include_thinking[c] /\ Len(sent[c]) = 2 /\ orig[c] # <<>>
        /\ Len(sent[c][2].messages) = Len(orig[c]) + 3

\* C4: when the provider fails in pass 1 of the refinement loop - on opening
\* the stream, while the increments are read, or on resolving the final
\* message - the call has ended with that error, has requested one stream
\* only and has returned nothing.
C4_FirstPassFailureAborts ==
    \A c \in Native :
        (error[c] = "provider" /\ finals[c] = <<>>) =>
            /\ pc[c] = "failed"
            /\ Len(sent[c]) = 1
            /\ ~result[c].has

C4_Witness ==
    \E c \in Native :
        /\ error[c] = "provider" /\ finals[c] = <<>>
        /\ sink[c] # <<>> /\ pc[c] = "failed"

\* C5: a refinement-loop call that returned has returned the text of the
\* final message of pass 2; the text of pass 1 is in the conversation of
\* pass 2.
C5_ReturnsSecondPassText ==
    \A c \in Native :
        pc[c] = "done" =>
            /\ Len(finals[c]) = 2
            /\ result[c] = [has |-> TRUE, text |-> PassText(finals[c][2])]
            /\ CarriesDraft(sent[c][2].messages[Len(orig[c]) + 1], PassText(finals[c][1]))

C5_Witness ==
    \E c \in Native :
        /\ pc[c] = "done"
        /\ PassText(finals[c][1]) # PassText(finals[c][2])
        /\ result[c].text # PassText(finals[c][1])

\* C6: on the two Claude paths, the fragments given to the sink during a
\* call that returned, concatenated in the order of delivery, are the text
\* the call returned.
C6_FragmentsEqualReturnedText ==
    \A c \in Calls :
        (fn[c] \in {"claude", "native"} /\ pc[c] = "done")
            => Concat(sink[c]) = result[c].text

\* A chunk that carries a non-empty delta text.
CarriesText(chunk) ==
    \E i \in 1..Len(chunk.choices) :
        /\ chunk.choices[i].hasDelta /\ chunk.choices[i].hasContent
        /\ chunk.choices[i].content # <<>>

RECURSIVE DeltaTexts(_)
\* The delta texts of the chunks that carry one, in the order of the chunks.
DeltaTexts(chunks) ==
    IF chunks = <<>> THEN <<>>
    ELSE (IF CarriesText(Head(chunks)) THEN <<Head(chunks).choices[1].content>> ELSE <<>>)
         \o DeltaTexts(Tail(chunks))

\* C7: in stream_openai_response the sink has been invoked once for every
\* chunk received that carries a non-empty delta text, with that text, in
\* the order of arrival, and for no other chunk; the text returned is the
\* concatenation of the fragments delivered.
C7_SinkOncePerTextChunk ==
    \A c \in Calls :
        fn[c] = "openai" =>
            /\ sink[c] = DeltaTexts(received[c])
            /\ (pc[c] = "done" =>
                   result[c] = [has |-> TRUE, text |-> Concat(sink[c])])

C7_Witness ==
    \E c \in Calls :
        /\ fn[c] = "openai" /\ pc[c] = "done"
        /\ Len(received[c]) = 2 /\ Len(sink[c]) = 1
        /\ \E i \in 1..2 : received[c][i].choices # <<>> /\ ~CarriesText(received[c][i])

\* C8: a call that has failed or was cancelled has returned no text, and
\* the fragments delivered to the sink stay delivered: every step extends
\* the sink's sequence, and no step after the end of the call changes it.
C8_FailedCallReturnsNothing ==
    [][\A c \in Calls :
          /\ pc'[c] \in {"failed", "cancelled"} => ~result'[c].has
          /\ IsPrefix(sink[c], sink'[c])
          /\ pc[c] \in Terminal => (sink'[c] = sink[c] /\ pc'[c] = pc[c])]_vars

C8_Witness ==
    \E c \in Calls :
        /\ pc[c] = "failed" /\ error[c] = "provider"
        /\ Len(sink[c]) = 2 /\ ~result[c].has

\* C9: stream_claude_response leaves the caller's conversation as it was:
\* from its start on, and so after it returned or failed, the caller's list
\* and every part in it have the values they had when the call began; and a
\* second call on the same conversation sends the payload the first sent.
C9_NormalizationLeavesCallerUntouched ==
    /\ \A c \in Calls :
           (fn[c] = "claude" /\ pc[c] \notin {"idle", "start"}) => Caller(c) = orig[c]
    /\ \A c \in Calls : \A d \in Calls :
           (sent[c] # <<>> /\ sent[d] # <<>>) => (orig[c] = orig[d] /\ sent[c] = sent[d])

C9_Witness ==
    /\ pc[1] \in Terminal /\ pc[2] = "done"
    /\ \E i \in 1..Len(orig[2]) : \E j \in 1..Len(orig[2][i].parts) :
           /\ orig[2][i].parts[j].type = "image_url"
           /\ sent[2][1].messages[i - 1].parts[j].type = "image"

\* C10: when a refinement-loop call has returned or failed, the list the
\* caller passed in holds the turns it held before the call.
C10_CallerListUntouched ==
    \A c \in Native : pc[c] \in Terminal => Caller(c) = orig[c]

\* C11: a call of stream_claude_response on a conversation that is empty or
\* whose first message does not have role system fails before any stream is
\* requested, so a first message of another role is never sent as the system
\* prompt.
C11_MalformedConversationFails ==
    \A c \in Calls :
        (/\ fn[c] = "claude"
         /\ pc[c] \notin {"idle", "start"}
         /\ (orig[c] = <<>> \/ orig[c][1].role # "system"))
            => (pc[c] = "failed" /\ sent[c] = <<>>)

\* The resolution of call c's model name has returned or raised.
ResolutionEnded(c) == model[c] # "none" \/ resolve_error[c] # "none"

\* C12: the resolution of a name that is neither a short name nor the value
\* of a member of Llm raises and yields no model, and no client is created
\* and no stream requested by it.
C12_UnknownNameFails ==
    \A c \in Calls :
        (/\ ResolutionEnded(c)
         /\ frontend_str[c] \notin Llm \cup {"gpt_4_vision", "claude_3_sonnet"})
            => /\ resolve_error[c] = "ValueError"
               /\ model[c] = "none"
               /\ \A d \in Calls : client[d] = "none" /\ sent[d] = <<>>

C12_Witness ==
    \E c \in Calls :
        frontend_str[c] = "not_a_real_model" /\ resolve_error[c] = "ValueError"

\* C13 as stated: the resolution succeeds on the short names gpt_4_vision,
\* claude_3_sonnet and claude_3_5_sonnet and on the value of every member of
\* Llm, which resolves to that member.
C13_ResolvesEveryShortName ==
    \A c \in Calls :
        (/\ ResolutionEnded(c)
         /\ frontend_str[c] \in
                Llm \cup {"gpt_4_vision", "claude_3_sonnet", "claude_3_5_sonnet"})
            => /\ resolve_error[c] = "none"
               /\ model[c] \in Llm
               /\ (frontend_str[c] \in Llm => model[c] = frontend_str[c])

\* C13, amended: the short names are gpt_4_vision and claude_3_sonnet, each
\* resolving to one member; the value of every member resolves to that
\* member; claude_3_5_sonnet is not a short name and its resolution raises.
C13_ResolvesTwoAliasesAndValues ==
    \A c \in Calls :
        ResolutionEnded(c) =>
            /\ (frontend_str[c] = "gpt_4_vision" =>
                    model[c] = GPT_4_VISION /\ resolve_error[c] = "none")
            /\ (frontend_str[c] = "claude_3_sonnet" =>
                    model[c] = CLAUDE_3_SONNET /\ resolve_error[c] = "none")
            /\ (frontend_str[c] \in Llm =>
                    model[c] = frontend_str[c] /\ resolve_error[c] = "none")
            /\ (frontend_str[c] = "claude_3_5_sonnet" =>
                    model[c] = "none" /\ resolve_error[c] = "ValueError")

C13_Witness ==
    \E c, d \in Calls :
        /\ frontend_str[c] = "claude_3_sonnet" /\ model[c] = CLAUDE_3_SONNET
        /\ frontend_str[d] = "claude_3_5_sonnet" /\ resolve_error[d] = "ValueError"

\* C14: a call of the refinement loop that failed without any final message
\* having been produced failed with the no-response error of line 239.
C14_NoResponseErrorWhenNoFinal ==
    \A c \in Native :
        (pc[c] = "failed" /\ finals[c] = <<>> /\ response[c].isNone)
            => error[c] = "No HTML response found in AI response"

\* C15: a run of the refinement loop with the debug flag set (call 1) and a
\* run with it cleared (call 2) on an equal conversation, in which provider,
\* sink and caller behaved alike, requested the same streams with the same
\* conversations, delivered the same fragments and ended alike, with the
\* same text returned or the same failure; the second run asks nothing of
\* the provider that the first did not.
C15_DebugFlagAffectsDiagnosticsOnly ==
    (/\ pc[1] \in Terminal
     /\ pc[2] # "idle"
     /\ Behaviour(events[2]) = Behaviour(events[1]))
        => /\ pc[2] \notin {"open", "stream", "final"}
           /\ pc[2] \in Terminal =>
                /\ pc[2] = pc[1]
                /\ sent[2] = sent[1]
                /\ sink[2] = sink[1]
                /\ result[2] = result[1]
                /\ error[2] = error[1]

C15_Witness ==
    /\ ~IS_DEBUG_ENABLED
    /\ pc[1] = "done" /\ pc[2] = "done"
    /\ Behaviour(events[2]) = Behaviour(events[1])
    /\ debug_files[1] # <<>> /\ debug_files[2] = <<>>
    /\ Len(sink[2]) = 2

\* C16: the assistant turn that follows the caller's turns in the
\* conversation of pass 2 holds the prefix and the final text of pass 1 when
\* include_thinking is set, the final text of pass 1 alone when it is not,
\* and the instruction turn comes next.
C16_AssistantTurnPrefixedIfPrimed ==
    \A c \in Native :
        Len(sent[c]) >= 2 =>
            LET n == Len(orig[c])
                turns == sent[c][2].messages
                text == PassText(finals[c][1])
            IN  /\ Len(turns) >= n + 2
                /\ turns[n + 1] =
                       TextMsg("assistant",
                               IF include_thinking[c] THEN prefix \o text ELSE text)
                /\ turns[n + 2] = TextMsg("user", Instruction)

\* C17: of two calls of the refinement loop on one caller conversation, each
\* sends that conversation in pass 1, and in pass 2 that conversation
\* followed by its own assistant turn and the instruction turn, and nothing
\* else.
C17_CallsShareNoConversation ==
    \A c \in Native :
        /\ Len(sent[c]) >= 1 => sent[c][1].messages = SharedConversation
        /\ Len(sent[c]) >= 2 =>
               LET n == Len(SharedConversation)
                   turns == sent[c][2].messages
               IN  /\ Len(turns) = n + 2
                   /\ SubSeq(turns, 1, n) = SharedConversation
                   /\ CarriesDraft(turns[n + 1], PassText(finals[c][1]))
                   /\ turns[n + 2] = TextMsg("user", Instruction)

\* The part q of the payload is what the translation owes for the part p.
TranslatedPart(p, q) ==
    /\ ~q.hasImageUrl
    /\ p.type = "image_url" =>
           /\ q.type = "image"
           /\ q.hasSource
           /\ q.source = [type |-> "base64",
                          media_type |-> process_image(p.image_url)[1],
                          data |-> process_image(p.image_url)[2]]
    /\ p.type # "image_url" => q = p

\* C18: in the payload of stream_claude_response every image_url part of the
\* caller's turns is an image part with a base64 source holding the media
\* type and the data process_image returned, no part has an image_url field,
\* and messages of plain text and parts of other kinds are as the caller
\* gave them.
C18_ImagePartsTranslated ==
    \A c \in Calls :
        (fn[c] = "claude" /\ Len(sent[c]) >= 1) =>
            LET given == Tail(orig[c])
                payload == sent[c][1].messages
            IN  /\ Len(payload) = Len(given)
                /\ \A i \in 1..Len(given) :
                       IF ~given[i].isList
                       THEN payload[i] = given[i]
                       ELSE /\ payload[i].role = given[i].role
                            /\ payload[i].isList
                            /\ Len(payload[i].parts) = Len(given[i].parts)
                            /\ \A j \in 1..Len(given[i].parts) :
                                   TranslatedPart(given[i].parts[j], payload[i].parts[j])

C18_Witness ==
    \E c \in Calls :
        /\ fn[c] = "claude" /\ Len(sent[c]) = 1 /\ Len(orig[c]) = 2
        /\ orig[c][2].isList /\ Len(orig[c][2].parts) = 2
        /\ orig[c][2].parts[1].type = "image_url"
        /\ orig[c][2].parts[2].type = "document"
        /\ sent[c][1].messages[1].parts[1].type = "image"

\* C19: the request of stream_openai_response carries max_tokens 4096 for
\* gpt-4-vision-preview, gpt-4-turbo-2024-04-09 and gpt-4o-2024-05-13, 16384
\* for gpt-4o-2024-11-20 and no max_tokens for any other member of Llm; for
\* every member it carries temperature 0.0 and timeout 600.
C19_OpenAIParameters ==
    \A c \in Calls :
        (fn[c] = "openai" /\ pc[c] \notin {"idle", "start"}) =>
            /\ params[c].model = model[c]
            /\ params[c].temperature = 0
            /\ params[c].hasTimeout /\ params[c].timeout = 600
            /\ model[c] \in {"gpt-4-vision-preview", "gpt-4-turbo-2024-04-09",
                             "gpt-4o-2024-05-13"} =>
                   params[c].hasMaxTokens /\ params[c].max_tokens = 4096
            /\ model[c] = "gpt-4o-2024-11-20" =>
                   params[c].hasMaxTokens /\ params[c].max_tokens = 16384
            /\ model[c] \notin {"gpt-4-vision-preview", "gpt-4-turbo-2024-04-09",
                                "gpt-4o-2024-05-13", "gpt-4o-2024-11-20"} =>
                   ~params[c].hasMaxTokens

C19_Witness ==
    \E c \in Calls :
        /\ fn[c] = "openai" /\ pc[c] = "done"
        /\ model[c] = "gpt-4o-2024-11-20" /\ params[c].max_tokens = 16384

\* The fragments the provider yielded to call c while its n-th stream was
\* the last one requested, in arrival order.
PassFragments(c, n) ==
    LET InPass(e) == e.kind = "delta" /\ e.pass = n
        deltas == SelectSeq(events[c], InPass)
    IN  [i \in 1..Len(deltas) |-> deltas[i].text]

\* C20: the sink of a refinement-loop call has received the fragments of
\* pass 1 and then those of pass 2, each in arrival order; once the second
\* stream is requested the fragments of pass 1 are the whole first message,
\* and in a call that returned those of pass 2 are the whole second one.
C20_SinkReceivesBothPasses ==
    \A c \in Native :
        /\ sink[c] = PassFragments(c, 1) \o PassFragments(c, 2)
        /\ Len(sent[c]) >= 2 =>
               Concat(PassFragments(c, 1)) = Concat(finals[c][1])
        /\ pc[c] = "done" =>
               Concat(PassFragments(c, 2)) = Concat(finals[c][2])

C20_Witness ==
    \E c \in Native :
        /\ pc[c] = "done"
        /\ Len(PassFragments(c, 1)) = 2 /\ Len(PassFragments(c, 2)) = 2
        /\ PassFragments(c, 1) # PassFragments(c, 2)
        /\ result[c].text # Concat(sink[c])

============================================================================
